---------------------------- MODULE Spec2Model ----------------------------
(***************************************************************************)
(* A model of the Patent-Text-Extractor pipeline                           *)
(* (src/patent_text_extractor.py and its two older variants).              *)
(*                                                                         *)
(*   Spec       main(): prepare the output directory, select a PDF,        *)
(*              convert_pdf_to_images (render, then per page: save, split, *)
(*              save columns, recognise, write text, append), then         *)
(*              modify_active_ppt.                                         *)
(*   SplitSpec  split_image on images of every size within the bounds.     *)
(*   ParseSpec  parse_patent_info (three variants) on bounded texts.       *)
(*                                                                         *)
(* A text is a sequence of one-character strings.                          *)
(***************************************************************************)
EXTENDS Integers, Sequences, FiniteSets, TLC

VARIABLES
    pc,            \* position of main / convert_pdf_to_images
    linesep,       \* os.linesep of the platform the program runs on
    dir_exists,    \* whether the directory "images" exists
    files,         \* the directory's content: file name -> content
    images,        \* convert_from_path's result (list of page images)
    pos,           \* how many items the loop's iterator has handed out
    i,             \* loop variable of convert_pdf_to_images
    left,          \* split_image's left crop of the current page (<<>> before)
    right,         \* split_image's right crop of the current page
    left_text,     \* text recognised from the left crop of the current page
    combined_text, \* the f-string of line 126
    image_paths,   \* list built by convert_pdf_to_images
    texts,         \* list built by convert_pdf_to_images
    progress_n,    \* tqdm's counter n of the "Converting PDF" bar
    progress_total,\* <<>>, or <<t>> with t the total of the "Converting PDF" bar
    result,        \* <<>>, or <<r>> with r what convert_pdf_to_images returned
    ppt,           \* <<>>, or <<s>> with s the slides modify_active_ppt built
    failure,       \* <<>>, or <<f>> with f the exception that ended the run
    ocr_log,       \* history: every extract_text_from_image call and its answer
    preexisting,   \* history: the files found in the directory at start
    image,         \* SplitSpec: the image handed to split_image
    crops,         \* SplitSpec: <<>>, or split_image's pair of crops
    text,          \* ParseSpec: the text handed to parse_patent_info
    info           \* ParseSpec: variant -> the PatentInfo it returned

pipeline_vars == <<pc, linesep, dir_exists, files, images, pos, i, left, right,
                   left_text, combined_text, image_paths, texts, progress_n,
                   progress_total,
                   result, ppt, failure, ocr_log, preexisting>>
split_vars == <<image, crops>>
parse_vars == <<text, info>>
vars == <<pipeline_vars, split_vars, parse_vars>>

-----------------------------------------------------------------------------
(* Bounds *)

MaxPages == 2
MaxWidth == 11
MaxHeight == 4
MaxFrags == 3

-----------------------------------------------------------------------------
(* Images.  An image is a rectangle of a rendered source page:             *)
(* [page |-> k, box |-> <<x0, y0, x1, y1>>] holds the pixel columns        *)
(* x0 .. x1-1 and rows y0 .. y1-1 of page k.                               *)

NewImage(k, w, h) == [page |-> k, box |-> <<0, 0, w, h>>]

\* PIL's Image.size
size(im) == <<im.box[3] - im.box[1], im.box[4] - im.box[2]>>

\* PIL's Image.crop(bbox): bbox is relative to the image's own origin
crop(im, bbox) ==
    [page |-> im.page,
     box |-> <<im.box[1] + bbox[1], im.box[2] + bbox[2],
               im.box[1] + bbox[3], im.box[2] + bbox[4]>>]

split_image_odd_left(im) ==
    LET width == size(im)[1]
        height == size(im)[2]
        column_width == (width + 1) \div 2
    IN  <<crop(im, <<0, 0, column_width, height>>),
          crop(im, <<column_width, 0, width, height>>)>>

split_image(im) ==
    LET width == size(im)[1]
        height == size(im)[2]
        column_width == width \div 2
        left_bbox == <<0, 0, column_width, height>>
        right_bbox == <<column_width, 0, width, height>>
    IN  <<crop(im, left_bbox), crop(im, right_bbox)>>

-----------------------------------------------------------------------------
(* Characters and Python's str methods *)

\* the characters str.strip() removes and the pattern \s matches
Whitespace == {" ", "\t", "\n", "\r", "\f"}

\* \d
Digits == {"0", "1", "2", "3", "4", "5", "6", "7", "8", "9"}

UpperCase == {"A", "B", "C", "D", "E", "F", "G", "H", "I", "J", "K", "L", "M",
              "N", "O", "P", "Q", "R", "S", "T", "U", "V", "W", "X", "Y", "Z"}

LowerCase == {"a", "b", "c", "d", "e", "f", "g", "h", "i", "j", "k", "l", "m",
              "n", "o", "p", "q", "r", "s", "t", "u", "v", "w", "x", "y", "z"}

\* \w
WordChars == UpperCase \cup LowerCase \cup Digits \cup {"_"}

ToLower ==
    ("A" :> "a") @@ ("B" :> "b") @@ ("C" :> "c") @@ ("D" :> "d") @@
    ("E" :> "e") @@ ("F" :> "f") @@ ("G" :> "g") @@ ("H" :> "h") @@
    ("I" :> "i") @@ ("J" :> "j") @@ ("K" :> "k") @@ ("L" :> "l") @@
    ("M" :> "m") @@ ("N" :> "n") @@ ("O" :> "o") @@ ("P" :> "p") @@
    ("Q" :> "q") @@ ("R" :> "r") @@ ("S" :> "s") @@ ("T" :> "t") @@
    ("U" :> "u") @@ ("V" :> "v") @@ ("W" :> "w") @@ ("X" :> "x") @@
    ("Y" :> "y") @@ ("Z" :> "z")

\* case folding of re.IGNORECASE
fold(c) == IF c \in UpperCase THEN ToLower[c] ELSE c

Max(S) == CHOOSE x \in S : \A y \in S : y <= x
Min(S) == CHOOSE x \in S : \A y \in S : x <= y

\* str.strip()
strip(s) ==
    LET keep == {k \in 1..Len(s) : s[k] \notin Whitespace}
    IN  IF keep = {} THEN <<>> ELSE SubSeq(s, Min(keep), Max(keep))

\* str.replace("\n", " ")
replace_newlines(s) == [k \in 1..Len(s) |-> IF s[k] = "\n" THEN " " ELSE s[k]]

\* str.lstrip(")")
lstrip_paren(s) ==
    LET keep == {k \in 1..Len(s) : s[k] # ")"}
    IN  IF keep = {} THEN <<>> ELSE SubSeq(s, Min(keep), Len(s))

-----------------------------------------------------------------------------
(* The regular expressions of parse_patent_info.  Positions are 1-based;   *)
(* position Len(txt)+1 is the end of the text.                             *)

\* a literal at position p (case-insensitively when ic)
match_at(txt, p, lit, ic) ==
    /\ p >= 1
    /\ p + Len(lit) - 1 <= Len(txt)
    /\ \A k \in 1..Len(lit) :
          IF ic THEN fold(txt[p + k - 1]) = fold(lit[k])
                ELSE txt[p + k - 1] = lit[k]

\* \(\d{2}\) at position p
section_marker_at(txt, p) ==
    /\ p + 3 <= Len(txt)
    /\ txt[p] = "("
    /\ txt[p + 1] \in Digits
    /\ txt[p + 2] \in Digits
    /\ txt[p + 3] = ")"

\* \n\n (and \n{2,}) at position p
blank_line_at(txt, p) ==
    /\ p + 1 <= Len(txt)
    /\ txt[p] = "\n"
    /\ txt[p + 1] = "\n"

\* \Z at position p
end_at(txt, p) == p = Len(txt) + 1

\* (?=\(\d{2}\)|\n{2,}|\Z) and (?=\(\d{2}\)|\n\n|\Z)
section_lookahead(txt, p) ==
    section_marker_at(txt, p) \/ blank_line_at(txt, p) \/ end_at(txt, p)

\* (?=\n\n|\Z)
blank_lookahead(txt, p) == blank_line_at(txt, p) \/ end_at(txt, p)

\* the lookahead that ends a captured span: "section" or "blank"
lookahead(txt, p, look) ==
    IF look = "section" THEN section_lookahead(txt, p)
                        ELSE blank_lookahead(txt, p)

\* the number of consecutive \s characters from position e on
space_run(txt, e) ==
    Max({k \in 0..(Len(txt) + 1 - e) :
            \A j \in 0..(k - 1) : txt[e + j] \in Whitespace})

\* ([\s\S]+?)(?=...) with the group starting at g <= Len(txt): the lazy
\* group takes one character, then one more at a time until the lookahead
\* holds; the result is the position after the group.
lazy_end(txt, g, look) ==
    Min({h \in (g + 1)..(Len(txt) + 1) : lookahead(txt, h, look)})

\* \s*([\s\S]+?)(?=...) from position e: \s* takes the whole whitespace run
\* and gives characters back one at a time until the group can take the one
\* character it needs.  <<>> when it cannot, else <<g, h>>: the group is
\* txt[g .. h-1].
span_after(txt, e, look) ==
    LET ks == {k \in 0..space_run(txt, e) : e + k <= Len(txt)}
    IN  IF ks = {} THEN <<>>
        ELSE LET g == e + Max(ks) IN <<g, lazy_end(txt, g, look)>>

\* the whole pattern tried at start position s; alts lists the literal
\* prefix's alternatives in the order the engine tries them (an optional
\* character is tried present first)
try_at(txt, s, alts, look) ==
    LET ok == {a \in 1..Len(alts) :
                 /\ match_at(txt, s, alts[a], TRUE)
                 /\ span_after(txt, s + Len(alts[a]), look) # <<>>}
    IN  IF ok = {} THEN <<>>
        ELSE span_after(txt, s + Len(alts[Min(ok)]), look)

\* re.search: the first start position at which the pattern matches
search_span(txt, alts, look) ==
    LET starts == {s \in 1..Len(txt) : try_at(txt, s, alts, look) # <<>>}
    IN  IF starts = {} THEN <<>> ELSE try_at(txt, Min(starts), alts, look)

group1(txt, span) == SubSeq(txt, span[1], span[2] - 1)

\* \b at position p
word_boundary(txt, p) ==
    LET before == p - 1 >= 1 /\ p - 1 <= Len(txt) /\ txt[p - 1] \in WordChars
        after == p >= 1 /\ p <= Len(txt) /\ txt[p] \in WordChars
    IN  before # after

all_digits(txt, p, n) ==
    /\ p + n - 1 <= Len(txt)
    /\ \A k \in 0..(n - 1) : txt[p + k] \in Digits

\* US\s\d{1,3},\d{3},\d{3}\s\w\d at start s with \d{1,3} taking n digits
number_at(txt, s, n) ==
    /\ s + 13 + n <= Len(txt)
    /\ match_at(txt, s, <<"U", "S">>, FALSE)
    /\ txt[s + 2] \in Whitespace
    /\ all_digits(txt, s + 3, n)
    /\ txt[s + 3 + n] = ","
    /\ all_digits(txt, s + 4 + n, 3)
    /\ txt[s + 7 + n] = ","
    /\ all_digits(txt, s + 8 + n, 3)
    /\ txt[s + 11 + n] \in Whitespace
    /\ txt[s + 12 + n] \in WordChars
    /\ txt[s + 13 + n] \in Digits

number_search_last(txt) ==
    LET hits == {s \in 1..Len(txt) : \E n \in 1..3 : number_at(txt, s, n)}
    IN  IF hits = {} THEN <<>>
        ELSE LET s == Max(hits)
                 n == Max({m \in 1..3 : number_at(txt, s, m)})
             IN  <<s, s + 14 + n>>

\* re.search of the number pattern: <<>> or <<s, e>>, the match txt[s .. e-1]
number_search(txt) ==
    LET hits == {s \in 1..Len(txt) : \E n \in 1..3 : number_at(txt, s, n)}
    IN  IF hits = {} THEN <<>>
        ELSE LET s == Min(hits)
                 n == Max({m \in 1..3 : number_at(txt, s, m)})
             IN  <<s, s + 14 + n>>

Months == {<<"J", "a", "n">>, <<"F", "e", "b">>, <<"M", "a", "r">>,
           <<"A", "p", "r">>, <<"M", "a", "y">>, <<"J", "u", "n">>,
           <<"J", "u", "l">>, <<"A", "u", "g">>, <<"S", "e", "p">>,
           <<"O", "c", "t">>, <<"N", "o", "v">>, <<"D", "e", "c">>}

\* (\b(?:Jan|...|Dec)\.\s\d{1,2},\s\d{4}\b) at position g with \d{1,2}
\* taking n digits
date_group_at(txt, g, n) ==
    /\ g + 10 + n <= Len(txt)
    /\ word_boundary(txt, g)
    /\ \E m \in Months : match_at(txt, g, m, FALSE)
    /\ txt[g + 3] = "."
    /\ txt[g + 4] \in Whitespace
    /\ all_digits(txt, g + 5, n)
    /\ txt[g + 5 + n] = ","
    /\ txt[g + 6 + n] \in Whitespace
    /\ all_digits(txt, g + 7 + n, 4)
    /\ word_boundary(txt, g + 11 + n)

date_group_start_unlabelled(txt, s) == s

\* \(45\)\s*Date of Patent:\s*(...) at start s: where group 1 starts.  Both
\* \s* are followed by a non-space character, so only the full whitespace
\* run can lead to a match.  0 when the label does not match at s.
date_group_start(txt, s) ==
    IF ~match_at(txt, s, <<"(", "4", "5", ")">>, FALSE) THEN 0
    ELSE LET e == s + 4 + space_run(txt, s + 4)
             label == <<"D", "a", "t", "e", " ", "o", "f", " ",
                        "P", "a", "t", "e", "n", "t", ":">>
         IN  IF ~match_at(txt, e, label, FALSE) THEN 0
             ELSE e + 15 + space_run(txt, e + 15)

\* re.search of the date pattern: <<>> or <<g, h>>, group 1 = txt[g .. h-1]
date_search(txt) ==
    LET hit(s) == /\ date_group_start(txt, s) # 0
                  /\ \E n \in 1..2 : date_group_at(txt, date_group_start(txt, s), n)
        hits == {s \in 1..Len(txt) : hit(s)}
    IN  IF hits = {} THEN <<>>
        ELSE LET g == date_group_start(txt, Min(hits))
                 n == Max({m \in 1..2 : date_group_at(txt, g, m)})
             IN  <<g, g + 11 + n>>

-----------------------------------------------------------------------------
(* parse_patent_info *)

TitleNA == <<"T", "i", "t", "l", "e", " ", "N", "/", "A">>
NumberNA == <<"P", "A", "T", "E", "N", "T", " ", "#", " ", "N", "/", "A">>
DateNA == <<"D", "a", "t", "e", " ", "N", "/", "A">>
InventorsNA == <<"I", "n", "v", "e", "n", "t", "o", "r", "s", " ", "N", "/", "A">>
AbstractNA == <<"A", "b", "s", "t", "r", "a", "c", "t", " ", "N", "/", "A">>

\* \(54\)
TitleLabel == << <<"(", "5", "4", ")">> >>

\* Inventors?:
InventorsLabel == << <<"I", "n", "v", "e", "n", "t", "o", "r", "s", ":">>,
                     <<"I", "n", "v", "e", "n", "t", "o", "r", ":">> >>

\* Abstract:?
AbstractLabel == << <<"A", "b", "s", "t", "r", "a", "c", "t", ":">>,
                    <<"A", "b", "s", "t", "r", "a", "c", "t">> >>

\* Abstract?  (CVRT3.0.py)
AbstractLabelCvrt == << <<"A", "b", "s", "t", "r", "a", "c", "t">>,
                        <<"A", "b", "s", "t", "r", "a", "c">> >>

title_match(txt) == search_span(txt, TitleLabel, "section")

title_of(txt) ==
    LET m == title_match(txt)
        title == IF m # <<>> THEN replace_newlines(strip(group1(txt, m)))
                 ELSE TitleNA
    IN  lstrip_paren(title)

number_of(txt) ==
    LET m == number_search(txt)
    IN  IF m # <<>> THEN SubSeq(txt, m[1], m[2] - 1) ELSE NumberNA

date_of(txt) ==
    LET m == date_search(txt)
    IN  IF m # <<>> THEN group1(txt, m) ELSE DateNA

inventors_match(txt) == search_span(txt, InventorsLabel, "section")

inventors_of_empty_fallback(txt) ==
    LET m == inventors_match(txt)
    IN  IF m # <<>> THEN replace_newlines(strip(group1(txt, m)))
        ELSE <<>>

inventors_of(txt) ==
    LET m == inventors_match(txt)
    IN  IF m # <<>> THEN replace_newlines(strip(group1(txt, m)))
        ELSE InventorsNA

abstract_match(txt) == search_span(txt, AbstractLabel, "blank")

abstract_of(txt) ==
    LET m == abstract_match(txt)
    IN  IF m # <<>> THEN strip(group1(txt, m)) ELSE AbstractNA

abstract_match_cvrt(txt) == search_span(txt, AbstractLabelCvrt, "blank")

abstract_of_cvrt(txt) ==
    LET m == abstract_match_cvrt(txt)
    IN  IF m # <<>> THEN strip(group1(txt, m)) ELSE AbstractNA

PatentInfo(title, number, date, inventors, abstract) ==
    [title |-> title, number |-> number, date |-> date,
     inventors |-> inventors, abstract |-> abstract]

\* src/patent_text_extractor.py
parse_patent_info(txt) ==
    PatentInfo(title_of(txt), number_of(txt), date_of(txt),
               inventors_of(txt), abstract_of(txt))

\* src/Patent-anim2.py
parse_patent_info_anim2(txt) ==
    PatentInfo(title_of(txt), number_of(txt), date_of(txt),
               inventors_of(txt), abstract_of(txt))

\* src/CVRT3.0.py
parse_patent_info_cvrt(txt) ==
    PatentInfo(title_of(txt), number_of(txt), date_of(txt),
               inventors_of(txt), abstract_of_cvrt(txt))

-----------------------------------------------------------------------------
(* Files *)

\* f"page_{i}.png", f"page_{i}_col1.png", f"page_{i}_col2.png", f"page_{i}.txt"
page_png(n) == <<"page_", n, ".png">>
column_png_same(n, c) == <<"page_", n, "_col1.png">>
column_png(n, c) == IF c = 1 THEN <<"page_", n, "_col1.png">>
                             ELSE <<"page_", n, "_col2.png">>
page_txt(n) == <<"page_", n, ".txt">>

NoFiles == [n \in {} |-> <<>>]

\* writing a file creates it or replaces its content
write_file(fs, name, content) == (name :> content) @@ fs

\* PIL's Image.save(path): a PNG holds the image as it is
save_image(fs, im, path) == write_file(fs, path, im)

\* the text layer of write_text: every "\n" becomes the platform's line
\* separator (newline=None); the UTF-8 encoding keeps these characters
RECURSIVE translate_newlines(_, _)
translate_newlines(s, sep) ==
    IF s = <<>> THEN <<>>
    ELSE (IF Head(s) = "\n" THEN sep ELSE <<Head(s)>>)
         \o translate_newlines(Tail(s), sep)

\* Path.write_text(data, encoding="utf-8")
write_text(fs, path, data, sep) ==
    write_file(fs, path, translate_newlines(data, sep))

\* what a write that raises can leave at its path: nothing new (the open
\* failed, or the library removed the file), or a file without the data
\* (the write failed after the file was created)
failed_write(fs, name, empty) == {fs, write_file(fs, name, empty)}

\* a file that holds none of the image / none of the text
no_pixels(im) == [page |-> im.page, box |-> <<0, 0, 0, 0>>]
no_text == <<>>

combine_right_first(l, r) == r \o <<"\n", "\n">> \o l

\* f"{extract_text_from_image(left)}\n\n{extract_text_from_image(right)}"
combine(l, r) == l \o <<"\n", "\n">> \o r

\* shutil.rmtree(output_dir) if it exists, then output_dir.mkdir()
keep_directory(fs) == fs
fresh_directory(fs) == NoFiles

\* enumerate(images, start=1): the index handed out with the p-th image
enumerate_from_zero(p) == p - 1
enumerate_index(p) == p

-----------------------------------------------------------------------------
(* What the environment can supply *)

\* os.linesep
LineSeparators == {<<"\n">>, <<"\r", "\n">>}

\* (width, height) of a rendered page
PageSizes == {<<4, 2>>, <<5, 2>>}

\* what recognition may answer for one column
ColumnTexts == {<<>>, <<"a", "\n", "b">>, <<"c", "\r">>}

\* the content of "images" left by an earlier run
StaleText == <<"o", "l", "d">>
StaleFiles ==
    (page_txt(1) :> StaleText) @@ (page_png(MaxPages + 1) :> NewImage(9, 1, 1))

\* the documents: every sequence of at most MaxPages page sizes
Documents == UNION {[1..n -> PageSizes] : n \in 0..MaxPages}

\* convert_from_path(pdf_path, ...): one image per page, in page order
render(d) == [k \in 1..Len(d) |-> NewImage(k, d[k][1], d[k][2])]

-----------------------------------------------------------------------------
(* The run: main() and convert_pdf_to_images() *)

SplitIdle == image = <<>> /\ crops = <<>>
ParseIdle == text = <<>> /\ info = <<>>

Init ==
    /\ pc = "main"
    /\ linesep \in LineSeparators
    /\ dir_exists \in BOOLEAN
    /\ files \in (IF dir_exists THEN {NoFiles, StaleFiles} ELSE {NoFiles})
    /\ preexisting = files
    /\ images = <<>>
    /\ pos = 0
    /\ i = 0
    /\ left = <<>>
    /\ right = <<>>
    /\ left_text = <<>>
    /\ combined_text = <<>>
    /\ image_paths = <<>>
    /\ texts = <<>>
    /\ progress_n = 0
    /\ progress_total = <<>>
    /\ result = <<>>
    /\ ppt = <<>>
    /\ failure = <<>>
    /\ ocr_log = <<>>
    /\ SplitIdle
    /\ ParseIdle

\* an exception nothing catches: it leaves every frame and ends the process
raise_and_go_on(kind) ==
    /\ failure' = <<[kind |-> kind, page |-> i]>>
    /\ pc' = IF kind \in {"persist", "recognize"} THEN "next" ELSE "aborted"

raise(kind) ==
    /\ failure' = <<[kind |-> kind, page |-> i]>>
    /\ pc' = "aborted"

\* main, lines 228-231
PrepareDirectory ==
    /\ pc = "main"
    /\ dir_exists' = TRUE
    /\ files' = fresh_directory(files)
    /\ pc' = "select"
    /\ UNCHANGED <<split_vars, parse_vars>>
    /\ UNCHANGED <<linesep, images, pos, i, left, right, left_text,
                   combined_text, image_paths, texts, progress_n,
                   progress_total, result, ppt,
                   failure, ocr_log, preexisting>>

\* main, lines 233-236: the dialog gives a path or nothing
SelectPdf ==
    /\ pc = "select"
    /\ \E chosen \in BOOLEAN : pc' = IF chosen THEN "render" ELSE "exit"
    /\ UNCHANGED <<split_vars, parse_vars>>
    /\ UNCHANGED <<linesep, dir_exists, files, images, pos, i, left, right,
                   left_text, combined_text, image_paths, texts, progress_n,
                   progress_total,
                   result, ppt, failure, ocr_log, preexisting>>

\* convert_pdf_to_images, lines 113-116: convert_from_path gives every page
\* of the document or raises
Render ==
    /\ pc = "render"
    /\ \/ /\ \E d \in Documents : images' = render(d)
          /\ image_paths' = <<>>
          /\ texts' = <<>>
          /\ pc' = "loop"
          /\ UNCHANGED failure
       \/ /\ raise("render")
          /\ UNCHANGED <<images, image_paths, texts>>
    /\ UNCHANGED <<split_vars, parse_vars>>
    /\ UNCHANGED <<linesep, dir_exists, files, pos, i, left, right, left_text,
                   combined_text, progress_n,
                   progress_total, result, ppt, ocr_log,
                   preexisting>>

\* len(iterable) as tqdm takes it: a list has a length, an enumerate or a zip
\* object has none (TypeError)
has_len(kind) == kind = "list"

\* tqdm(iterable, ...) without total=: the total is len(iterable), or None
\* where the iterable has no length; n starts at 0
tqdm_total(kind, n) ==
    IF has_len(kind) THEN [known |-> TRUE, value |-> n]
                     ELSE [known |-> FALSE, value |-> 0]

\* line 118, the iterable of the for statement:
\* show_progress(enumerate(images, start=1), "Converting PDF")
StartLoop ==
    /\ pc = "loop"
    /\ progress_n' = 0
    /\ progress_total' = <<tqdm_total("enumerate", Len(images))>>
    /\ pc' = "next"
    /\ UNCHANGED <<split_vars, parse_vars>>
    /\ UNCHANGED <<linesep, dir_exists, files, images, pos, i, left, right,
                   left_text, combined_text, image_paths, texts, result, ppt,
                   failure, ocr_log, preexisting>>

\* line 118, the for statement: tqdm counts the item whose body has ended,
\* then enumerate hands out the next image with its index, or the loop ends
NextPage ==
    /\ pc = "next"
    /\ progress_n' = IF pos > 0 THEN progress_n + 1 ELSE progress_n
    /\ IF pos < Len(images)
       THEN /\ pos' = pos + 1
            /\ i' = enumerate_index(pos + 1)
            /\ pc' = "save_full"
       ELSE /\ pc' = "return"
            /\ UNCHANGED <<pos, i>>
    /\ UNCHANGED <<split_vars, parse_vars>>
    /\ UNCHANGED <<linesep, dir_exists, files, images, left, right, left_text,
                   combined_text, image_paths, texts, progress_total, result,
                   ppt, failure, ocr_log, preexisting>>

SaveFullSkipped ==
    /\ pc = "save_full"
    /\ pc' = "split"
    /\ UNCHANGED <<split_vars, parse_vars>>
    /\ UNCHANGED <<linesep, dir_exists, files, images, pos, i, left, right,
                   left_text, combined_text, image_paths, texts, progress_n,
                   progress_total, result, ppt, failure, ocr_log, preexisting>>

\* lines 119-120
SaveFull ==
    /\ pc = "save_full"
    /\ \/ /\ files' = save_image(files, images[pos], page_png(i))
          /\ pc' = "split"
          /\ UNCHANGED failure
       \/ /\ raise("persist")
          /\ files' \in failed_write(files, page_png(i), no_pixels(images[pos]))
    /\ UNCHANGED <<split_vars, parse_vars>>
    /\ UNCHANGED <<linesep, dir_exists, images, pos, i, left, right, left_text,
                   combined_text, image_paths, texts, progress_n,
                   progress_total, result, ppt,
                   ocr_log, preexisting>>

\* line 122
Split ==
    /\ pc = "split"
    /\ left' = split_image(images[pos])[1]
    /\ right' = split_image(images[pos])[2]
    /\ pc' = "save_col1"
    /\ UNCHANGED <<split_vars, parse_vars>>
    /\ UNCHANGED <<linesep, dir_exists, files, images, pos, i, left_text,
                   combined_text, image_paths, texts, progress_n,
                   progress_total, result, ppt,
                   failure, ocr_log, preexisting>>

\* line 123
SaveCol1 ==
    /\ pc = "save_col1"
    /\ \/ /\ files' = save_image(files, left, column_png(i, 1))
          /\ pc' = "save_col2"
          /\ UNCHANGED failure
       \/ /\ raise("persist")
          /\ files' \in failed_write(files, column_png(i, 1), no_pixels(left))
    /\ UNCHANGED <<split_vars, parse_vars>>
    /\ UNCHANGED <<linesep, dir_exists, images, pos, i, left, right, left_text,
                   combined_text, image_paths, texts, progress_n,
                   progress_total, result, ppt,
                   ocr_log, preexisting>>

\* line 124
SaveCol2 ==
    /\ pc = "save_col2"
    /\ \/ /\ files' = save_image(files, right, column_png(i, 2))
          /\ pc' = "ocr_left"
          /\ UNCHANGED failure
       \/ /\ raise("persist")
          /\ files' \in failed_write(files, column_png(i, 2), no_pixels(right))
    /\ UNCHANGED <<split_vars, parse_vars>>
    /\ UNCHANGED <<linesep, dir_exists, images, pos, i, left, right, left_text,
                   combined_text, image_paths, texts, progress_n,
                   progress_total, result, ppt,
                   ocr_log, preexisting>>

\* line 126, first call of extract_text_from_image: pytesseract answers
\* with some text or raises
OcrLeft ==
    /\ pc = "ocr_left"
    /\ \/ /\ \E t \in ColumnTexts :
               /\ left_text' = t
               /\ ocr_log' = Append(ocr_log, [image |-> left, text |-> t])
          /\ pc' = "ocr_right"
          /\ UNCHANGED failure
       \/ /\ raise("recognize")
          /\ UNCHANGED <<left_text, ocr_log>>
    /\ UNCHANGED <<split_vars, parse_vars>>
    /\ UNCHANGED <<linesep, dir_exists, files, images, pos, i, left, right,
                   combined_text, image_paths, texts, progress_n,
                   progress_total, result, ppt,
                   preexisting>>

\* line 126, second call and the f-string
OcrRight ==
    /\ pc = "ocr_right"
    /\ \/ /\ \E t \in ColumnTexts :
               /\ combined_text' = combine(left_text, t)
               /\ ocr_log' = Append(ocr_log, [image |-> right, text |-> t])
          /\ pc' = "write_txt"
          /\ UNCHANGED failure
       \/ /\ raise("recognize")
          /\ UNCHANGED <<combined_text, ocr_log>>
    /\ UNCHANGED <<split_vars, parse_vars>>
    /\ UNCHANGED <<linesep, dir_exists, files, images, pos, i, left, right,
                   left_text, image_paths, texts, progress_n,
                   progress_total, result, ppt,
                   preexisting>>

\* line 127
WriteText ==
    /\ pc = "write_txt"
    /\ \/ /\ files' = write_text(files, page_txt(i), combined_text, linesep)
          /\ pc' = "append"
          /\ UNCHANGED failure
       \/ /\ raise("persist")
          /\ files' \in failed_write(files, page_txt(i), no_text)
    /\ UNCHANGED <<split_vars, parse_vars>>
    /\ UNCHANGED <<linesep, dir_exists, images, pos, i, left, right, left_text,
                   combined_text, image_paths, texts, progress_n,
                   progress_total, result, ppt,
                   ocr_log, preexisting>>

\* lines 129-130
AppendResult ==
    /\ pc = "append"
    /\ image_paths' = Append(image_paths, page_png(i))
    /\ texts' = Append(texts, combined_text)
    /\ pc' = "next"
    /\ UNCHANGED <<split_vars, parse_vars>>
    /\ UNCHANGED <<linesep, dir_exists, files, images, pos, i, left, right,
                   left_text, combined_text, progress_n,
                   progress_total, result, ppt, failure,
                   ocr_log, preexisting>>

\* line 132
Return ==
    /\ pc = "return"
    /\ result' = <<[image_paths |-> image_paths, texts |-> texts]>>
    /\ pc' = "ppt"
    /\ UNCHANGED <<split_vars, parse_vars>>
    /\ UNCHANGED <<linesep, dir_exists, files, images, pos, i, left, right,
                   left_text, combined_text, image_paths, texts, progress_n,
                   progress_total,
                   ppt, failure, ocr_log, preexisting>>

\* zip(images, texts) of line 176
zip(a, b) == [k \in 1..Min({Len(a), Len(b)}) |-> <<a[k], b[k]>>]

\* the slides of lines 176-220: one per (image_path, text), each with the
\* picture and the parsed fields
slides_of(paths, txts) ==
    [k \in 1..Len(zip(paths, txts)) |->
        [picture |-> zip(paths, txts)[k][1],
         info |-> parse_patent_info(zip(paths, txts)[k][2])]]

\* main, line 239: modify_active_ppt raises (win32com or PowerPoint missing)
\* or fills the presentation
ModifyPpt ==
    /\ pc = "ppt"
    /\ \/ /\ ppt' = <<slides_of(result[1].image_paths, result[1].texts)>>
          /\ pc' = "done"
          /\ UNCHANGED failure
       \/ /\ raise("ppt")
          /\ UNCHANGED ppt
    /\ UNCHANGED <<split_vars, parse_vars>>
    /\ UNCHANGED <<linesep, dir_exists, files, images, pos, i, left, right,
                   left_text, combined_text, image_paths, texts, progress_n,
                   progress_total,
                   result, ocr_log, preexisting>>

Next ==
    \/ PrepareDirectory
    \/ SelectPdf
    \/ Render
    \/ StartLoop
    \/ NextPage
    \/ SaveFull
    \/ Split
    \/ SaveCol1
    \/ SaveCol2
    \/ OcrLeft
    \/ OcrRight
    \/ WriteText
    \/ AppendResult
    \/ Return
    \/ ModifyPpt

Spec == Init /\ [][Next]_vars

-----------------------------------------------------------------------------
(* split_image on its own *)

\* no run of main is under way
PipelineIdle ==
    /\ pc = "idle"
    /\ linesep = <<"\n">>
    /\ dir_exists = FALSE
    /\ files = NoFiles
    /\ preexisting = NoFiles
    /\ images = <<>>
    /\ pos = 0
    /\ i = 0
    /\ left = <<>>
    /\ right = <<>>
    /\ left_text = <<>>
    /\ combined_text = <<>>
    /\ image_paths = <<>>
    /\ texts = <<>>
    /\ progress_n = 0
    /\ progress_total = <<>>
    /\ result = <<>>
    /\ ppt = <<>>
    /\ failure = <<>>
    /\ ocr_log = <<>>

\* every image of at most MaxWidth by MaxHeight pixels
SplitInputs ==
    {NewImage(1, w, h) : w \in 0..MaxWidth, h \in 0..MaxHeight}

SplitInit ==
    /\ PipelineIdle
    /\ ParseIdle
    /\ image \in SplitInputs
    /\ crops = <<>>

SplitImage ==
    /\ crops = <<>>
    /\ image # <<>>
    /\ crops' = split_image(image)
    /\ UNCHANGED <<image, pipeline_vars, parse_vars>>

SplitNext == SplitImage

SplitSpec == SplitInit /\ [][SplitNext]_vars

-----------------------------------------------------------------------------
(* parse_patent_info on its own *)

RECURSIVE flatten(_)
flatten(fs) == IF fs = <<>> THEN <<>> ELSE Head(fs) \o flatten(Tail(fs))

\* every text made of at most MaxFrags pieces of F
TextsOver(F) == {flatten(fs) : fs \in UNION {[1..n -> F] : n \in 0..MaxFrags}}

TitleFrags ==
    {<<"(", "5", "4", ")">>, <<"(", "5", "7", ")">>, <<"\n", "\n">>, <<"\n">>,
     <<" ", "A">>, <<")">>}

InventorsFrags ==
    {<<"I", "n", "v", "e", "n", "t", "o", "r", "s", ":">>,
     <<"i", "n", "v", "e", "n", "t", "o", "r", ":">>,
     <<"(", "5", "7", ")">>, <<"\n", "\n">>, <<"\n">>, <<" ", "J">>}

AbstractFrags ==
    {<<"A", "b", "s", "t", "r", "a", "c", "t">>,
     <<"A", "B", "S", "T", "R", "A", "C", "T", ":">>,
     <<":">>, <<"\n", "\n">>, <<"\n">>, <<" ", "x">>}

NumberFrags ==
    {<<"U", "S", " ">>, <<"1", "0", ",", "1", "2", "3", ",">>,
     <<"1", "2", "3", "4", ",", "5", "6", "7", ",">>,
     <<"4", "5", "6", " ", "B", "2">>, <<"4", "5", "6", " ", "B", "B">>,
     <<"x">>,
     <<"U", "S", " ", "1", "0", ",", "1", "2", "3", ",", "4", "5", "6", " ",
       "B", "2">>,
     <<"U", "S", "\n", "1", ",", "2", "3", "4", ",", "5", "6", "7", " ",
       "1", "2">>}

DateFrags ==
    {<<"(", "4", "5", ")", " ", "D", "a", "t", "e", " ", "o", "f", " ",
       "P", "a", "t", "e", "n", "t", ":">>,
     <<"J", "a", "n", ".", " ", "5", ",", " ", "2", "0", "2", "1">>,
     <<"F", "o", "o", ".", " ", "5", ",", " ", "2", "0", "2", "1">>,
     <<"D", "e", "c", ".", " ", "3", "1", ",", " ", "1", "9", "9", "9">>,
     <<" ">>, <<"7">>,
     <<"(", "4", "5", ")", "\n", "D", "a", "t", "e", " ", "o", "f", " ",
       "P", "a", "t", "e", "n", "t", ":", " ",
       "F", "o", "o", ".", " ", "5", ",", " ", "2", "0", "2", "1", " ">>}

\* "(54) A Widget Apparatus\n\n(57) Abstract ..."
WidgetText ==
    <<"(", "5", "4", ")", " ", "A", " ", "W", "i", "d", "g", "e", "t", " ",
      "A", "p", "p", "a", "r", "a", "t", "u", "s", "\n", "\n", "(", "5", "7",
      ")", " ", "A", "b", "s", "t", "r", "a", "c", "t", " ", ".", ".", ".">>

\* "Inventors: Jane Doe; John Smith\n\n(57) Abstract"
JaneDoeText ==
    <<"I", "n", "v", "e", "n", "t", "o", "r", "s", ":", " ", "J", "a", "n",
      "e", " ", "D", "o", "e", ";", " ", "J", "o", "h", "n", " ", "S", "m",
      "i", "t", "h", "\n", "\n", "(", "5", "7", ")", " ", "A", "b", "s", "t",
      "r", "a", "c", "t">>

InputTexts ==
    TextsOver(TitleFrags) \cup TextsOver(InventorsFrags)
      \cup TextsOver(AbstractFrags) \cup TextsOver(NumberFrags)
      \cup TextsOver(DateFrags) \cup {WidgetText, JaneDoeText}

NoInfo == [v \in {} |-> <<>>]

\* The three variants are pure functions of the text; they are applied to
\* the same text one after the other, newest first.

ParseInit ==
    /\ PipelineIdle
    /\ SplitIdle
    /\ text \in InputTexts
    /\ info = NoInfo

\* src/patent_text_extractor.py's parse_patent_info is called on the text
ParseExtractor ==
    /\ DOMAIN info = {}
    /\ info' = ("patent_text_extractor" :> parse_patent_info(text)) @@ info
    /\ UNCHANGED <<text, pipeline_vars, split_vars>>

\* src/Patent-anim2.py's parse_patent_info is called on the text
ParseAnim2 ==
    /\ DOMAIN info = {"patent_text_extractor"}
    /\ info' = ("Patent-anim2" :> parse_patent_info_anim2(text)) @@ info
    /\ UNCHANGED <<text, pipeline_vars, split_vars>>

\* src/CVRT3.0.py's parse_patent_info is called on the text
ParseCvrt ==
    /\ DOMAIN info = {"patent_text_extractor", "Patent-anim2"}
    /\ info' = ("CVRT3.0" :> parse_patent_info_cvrt(text)) @@ info
    /\ UNCHANGED <<text, pipeline_vars, split_vars>>

ParseNext ==
    \/ ParseExtractor
    \/ ParseAnim2
    \/ ParseCvrt

ParseSpec == ParseInit /\ [][ParseNext]_vars

-----------------------------------------------------------------------------
(* Properties of a run (Spec) *)

NN == <<"\n", "\n">>

\* the text recognised from the left / right column of the k-th page
RecognisedLeft(k) == ocr_log[2 * k - 1].text
RecognisedRight(k) == ocr_log[2 * k].text

\* C1: a run that returns gives, for a document of N rendered pages, exactly
\* N paths and N texts; the k-th path is page_k.png, which holds the image of
\* source page k, and the k-th text is the text recognised from the two
\* columns of source page k, left column first.
C1_PagesInOrder ==
    result # <<>> =>
        LET N == Len(images)
            r == result[1]
        IN  /\ Len(r.image_paths) = N
            /\ Len(r.texts) = N
            /\ Len(ocr_log) = 2 * N
            /\ \A k \in 1..N :
                  /\ images[k].page = k
                  /\ r.image_paths[k] = <<"page_", k, ".png">>
                  /\ files[r.image_paths[k]] = images[k]
                  /\ ocr_log[2 * k - 1].image.page = k
                  /\ ocr_log[2 * k].image.page = k
                  /\ r.texts[k] = RecognisedLeft(k) \o NN \o RecognisedRight(k)

\* a run over two pages with different texts has returned
C1_Witness ==
    /\ result # <<>>
    /\ Len(result[1].texts) = 2
    /\ result[1].texts[1] # result[1].texts[2]

ArtifactsOf(k) ==
    {<<"page_", k, ".png">>, <<"page_", k, "_col1.png">>,
     <<"page_", k, "_col2.png">>, <<"page_", k, ".txt">>}

\* C2: once convert_pdf_to_images has returned in a run of main, the output
\* directory holds exactly the four artifacts of each of the N pages, 4N
\* files, and no file it held before the run.
C2_ExactlyFourFilesPerPage ==
    result # <<>> =>
        LET N == Len(images)
        IN  /\ dir_exists
            /\ DOMAIN files = UNION {ArtifactsOf(k) : k \in 1..N}
            /\ Cardinality(DOMAIN files) = 4 * N
            /\ \A n \in DOMAIN preexisting \cap DOMAIN files :
                  files[n] # preexisting[n]

\* a two-page run has returned in a directory that held stale artifacts
C2_Witness ==
    /\ result # <<>>
    /\ Len(images) = 2
    /\ preexisting # NoFiles

\* C3: when a write or a recognition fails on page p the run is over: no
\* later page is taken up, nothing of a later page is written or recognised,
\* page p is in no result list, convert_pdf_to_images returns nothing and
\* modify_active_ppt is not called.
C3_PageFailureAbortsRun ==
    (failure # <<>> /\ failure[1].kind \in {"persist", "recognize"}) =>
        LET p == failure[1].page
        IN  /\ pc = "aborted"
            /\ pos = p
            /\ \A n \in DOMAIN files : n[2] <= p
            /\ \A k \in 1..Len(ocr_log) : ocr_log[k].image.page <= p
            /\ Len(image_paths) = p - 1
            /\ Len(texts) = p - 1
            /\ result = <<>>
            /\ ppt = <<>>

\* recognition failed on the first of two pages
C3_Witness ==
    /\ failure # <<>>
    /\ failure[1].kind = "recognize"
    /\ failure[1].page = 1
    /\ Len(images) = 2
    /\ <<"page_", 1, "_col2.png">> \in DOMAIN files

\* C4: when rendering fails the run is over before page 1: the output
\* directory exists and is empty, nothing was recognised, nothing is
\* returned and modify_active_ppt is not called.
C4_RenderFailureLeavesNoArtifact ==
    (failure # <<>> /\ failure[1].kind = "render") =>
        /\ pc = "aborted"
        /\ dir_exists
        /\ DOMAIN files = {}
        /\ pos = 0
        /\ images = <<>>
        /\ ocr_log = <<>>
        /\ result = <<>>
        /\ ppt = <<>>

\* rendering failed in a run whose directory held stale artifacts
C4_Witness ==
    /\ failure # <<>>
    /\ failure[1].kind = "render"
    /\ preexisting # NoFiles

\* reading a file back in text mode (universal newlines): "\r\n" and "\r"
\* are read as "\n"
RECURSIVE ReadBack(_)
ReadBack(s) ==
    IF s = <<>> THEN <<>>
    ELSE IF Head(s) = "\r"
         THEN IF Len(s) >= 2 /\ s[2] = "\n"
              THEN <<"\n">> \o ReadBack(Tail(Tail(s)))
              ELSE <<"\n">> \o ReadBack(Tail(s))
         ELSE <<Head(s)>> \o ReadBack(Tail(s))

HasCR(s) == \E k \in 1..Len(s) : s[k] = "\r"

Count(s, c) == Cardinality({k \in 1..Len(s) : s[k] = c})

\* C5 as stated: the content of page_k.txt is left + "\n\n" + right exactly,
\* it is the string returned in memory, and reading it back gives that string.
C5_StoredTextIsExact ==
    \A k \in 1..Len(texts) :
        LET stored == files[<<"page_", k, ".txt">>]
        IN  /\ stored = RecognisedLeft(k) \o NN \o RecognisedRight(k)
            /\ stored = texts[k]
            /\ ReadBack(stored) = texts[k]

\* C5, amended: the string written to page_k.txt is left + "\n\n" + right,
\* left column first, and is the string returned in memory; the file holds
\* it with every "\n" stored as the platform's line separator; reading the
\* file back in text mode gives the in-memory string exactly when that
\* string has no carriage return.
C5_StoredTextUpToNewlines ==
    \A k \in 1..Len(texts) :
        LET stored == files[<<"page_", k, ".txt">>]
        IN  /\ texts[k] = RecognisedLeft(k) \o NN \o RecognisedRight(k)
            /\ linesep = <<"\n">> => stored = texts[k]
            /\ linesep = <<"\r", "\n">> =>
                  /\ Len(stored) = Len(texts[k]) + Count(texts[k], "\n")
                  /\ \A j \in 1..Len(stored) :
                        stored[j] = "\n" => (j > 1 /\ stored[j - 1] = "\r")
            /\ (ReadBack(stored) = texts[k]) <=> ~HasCR(texts[k])

\* on a platform whose line separator is "\r\n", a page's text file differs
\* from the in-memory text and reads back as it
C5_Witness ==
    /\ Len(texts) >= 1
    /\ linesep = <<"\r", "\n">>
    /\ Len(RecognisedLeft(1)) > 0
    /\ files[<<"page_", 1, ".txt">>] # texts[1]
    /\ ReadBack(files[<<"page_", 1, ".txt">>]) = texts[1]

-----------------------------------------------------------------------------
(* Properties of split_image (SplitSpec) *)

Columns(im) == {x \in 0..MaxWidth + 1 : im.box[1] <= x /\ x < im.box[3]}

-----------------------------------------------------------------------------
(* Properties of parse_patent_info (ParseSpec) *)

Extractor == "patent_text_extractor"

Lower(txt) == [k \in 1..Len(txt) |-> fold(txt[k])]

OccursAt(txt, p, lit) ==
    /\ p >= 1
    /\ p + Len(lit) - 1 <= Len(txt)
    /\ SubSeq(txt, p, p + Len(lit) - 1) = lit

Occurs(txt, lit) == \E p \in 1..Len(txt) : OccursAt(txt, p, lit)

FirstOccurrence(txt, lit) == Min({p \in 1..Len(txt) : OccursAt(txt, p, lit)})

IsText(x) == DOMAIN x = 1..Len(x)

\* C7: parse_patent_info gives a record of five texts for every text, and a
\* field whose own rule finds no match is its own placeholder whatever the
\* other rules find; a rule finds no match, in particular, when its marker
\* ("(54)", "US", "(45)", "inventor", "abstract") occurs nowhere.
C7_FieldsFallBackIndependently ==
    Extractor \in DOMAIN info =>
        LET r == info[Extractor]
        IN  /\ DOMAIN r = {"title", "number", "date", "inventors", "abstract"}
            /\ \A f \in DOMAIN r : IsText(r[f])
            /\ title_match(text) = <<>> => r.title = TitleNA
            /\ number_search(text) = <<>> => r.number = NumberNA
            /\ date_search(text) = <<>> => r.date = DateNA
            /\ inventors_match(text) = <<>> => r.inventors = InventorsNA
            /\ abstract_match(text) = <<>> => r.abstract = AbstractNA
            /\ ~Occurs(text, <<"(", "5", "4", ")">>) => r.title = TitleNA
            /\ ~Occurs(text, <<"U", "S">>) => r.number = NumberNA
            /\ ~Occurs(text, <<"(", "4", "5", ")">>) => r.date = DateNA
            /\ ~Occurs(Lower(text), <<"i", "n", "v", "e", "n", "t", "o", "r">>)
                  => r.inventors = InventorsNA
            /\ ~Occurs(Lower(text), <<"a", "b", "s", "t", "r", "a", "c", "t">>)
                  => r.abstract = AbstractNA

\* a text with a title and nothing else has been parsed: the title is
\* found and the four other fields are their placeholders
C7_Witness ==
    /\ Extractor \in DOMAIN info
    /\ Occurs(text, <<"(", "5", "4", ")">>)
    /\ info[Extractor].title = <<"A">>
    /\ info[Extractor].number = NumberNA
    /\ info[Extractor].date = DateNA
    /\ info[Extractor].inventors = InventorsNA
    /\ info[Extractor].abstract = AbstractNA

\* a two-digit section marker "(dd)" starts at p
MarkerAt(txt, p) ==
    /\ p + 3 <= Len(txt)
    /\ txt[p] = "("
    /\ txt[p + 1] \in Digits
    /\ txt[p + 2] \in Digits
    /\ txt[p + 3] = ")"

\* a blank line starts at p
BlankAt(txt, p) == p + 1 <= Len(txt) /\ txt[p] = "\n" /\ txt[p + 1] = "\n"

\* the first position from a on where a section marker or a blank line
\* starts or the text ends
SectionEnd(txt, a) ==
    Min({p \in a..(Len(txt) + 1) :
            MarkerAt(txt, p) \/ BlankAt(txt, p) \/ p = Len(txt) + 1})

\* the first position from a on where a blank line starts or the text ends
ParagraphEnd(txt, a) ==
    Min({p \in a..(Len(txt) + 1) : BlankAt(txt, p) \/ p = Len(txt) + 1})

\* C8: for a text with a "(54)" marker the title is the text between the
\* first such marker and the first following section marker, blank line or
\* end of text (stripped, newlines as spaces, leading ")" removed), and
\* nothing at or after that terminator, also when the terminator directly
\* follows the marker.  Where nothing but whitespace lies between the marker
\* and the terminator the placeholder is accepted as well as the empty text.
C8_TitleEndsAtFirstTerminator ==
    (Extractor \in DOMAIN info /\ Occurs(text, <<"(", "5", "4", ")">>)) =>
        LET a == FirstOccurrence(text, <<"(", "5", "4", ")">>) + 4
            t == SectionEnd(text, a)
            span == lstrip_paren(replace_newlines(strip(SubSeq(text, a, t - 1))))
        IN  \/ info[Extractor].title = span
            \/ span = <<>> /\ info[Extractor].title = TitleNA

InventorLabels == {<<"i", "n", "v", "e", "n", "t", "o", "r", ":">>,
                   <<"i", "n", "v", "e", "n", "t", "o", "r", "s", ":">>}

\* C9: for a text with an "Inventor:" or "Inventors:" label in any letter
\* case the inventors field is the text between the first such label and
\* the first following section marker, blank line or end of text, stripped
\* and with each newline replaced by a space.  Where nothing but whitespace
\* lies between the label and the terminator the placeholder is accepted as
\* well as the empty text.
C9_InventorsEndAtFirstTerminator ==
    (/\ Extractor \in DOMAIN info
     /\ \E l \in InventorLabels : Occurs(Lower(text), l)) =>
        LET starts == {p \in 1..Len(text) :
                          \E l \in InventorLabels : OccursAt(Lower(text), p, l)}
            s == Min(starts)
            l == CHOOSE l \in InventorLabels : OccursAt(Lower(text), s, l)
            a == s + Len(l)
            t == SectionEnd(text, a)
            span == replace_newlines(strip(SubSeq(text, a, t - 1)))
        IN  \/ info[Extractor].inventors = span
            \/ span = <<>> /\ info[Extractor].inventors = InventorsNA

\* C10: for a text with the word "Abstract" in any letter case the abstract
\* field is the text between the first occurrence of the word, and a ":"
\* directly after it, and the next blank line or the end of the text; the
\* word and the colon are not part of it.  It is stated of both files the
\* claim is drawn from.  Where nothing but whitespace lies between the word
\* and the blank line the placeholder is accepted as well as the empty text.
C10_AbstractEndsAtBlankLine ==
    \A v \in {Extractor, "CVRT3.0"} \cap DOMAIN info :
        Occurs(Lower(text), <<"a", "b", "s", "t", "r", "a", "c", "t">>) =>
            LET w == FirstOccurrence(Lower(text),
                         <<"a", "b", "s", "t", "r", "a", "c", "t">>) + 8
                a == IF w <= Len(text) /\ text[w] = ":" THEN w + 1 ELSE w
                t == ParagraphEnd(text, a)
                span == strip(SubSeq(text, a, t - 1))
            IN  \/ info[v].abstract = span
                \/ span = <<>> /\ info[v].abstract = AbstractNA

\* a text that neither starts nor ends with whitespace
Stripped(s) == s = <<>> \/ (s[1] \notin Whitespace /\ s[Len(s)] \notin Whitespace)

\* a text without a newline character
OneLine(s) == \A k \in 1..Len(s) : s[k] # "\n"

\* C11: for every text, the title, the inventors and the abstract that
\* parse_patent_info returns neither start nor end with whitespace and hold
\* no newline character, and the title does not start with ")".
C11_SpanFieldsAreClean ==
    Extractor \in DOMAIN info =>
        LET r == info[Extractor]
        IN  /\ \A f \in {"title", "inventors", "abstract"} :
                   Stripped(r[f]) /\ OneLine(r[f])
            /\ r.title # <<>> => r.title[1] # ")"

\* w is "US", a separator, 1-3 digits, ",", 3 digits, ",", 3 digits, a
\* separator, a kind character and a digit
NumberShape(w, separators, kinds) ==
    /\ Len(w) \in 15..17
    /\ LET n == Len(w) - 14
       IN  /\ w[1] = "U"
           /\ w[2] = "S"
           /\ w[3] \in separators
           /\ \A k \in 4..(3 + n) : w[k] \in Digits
           /\ w[4 + n] = ","
           /\ \A k \in (5 + n)..(7 + n) : w[k] \in Digits
           /\ w[8 + n] = ","
           /\ \A k \in (9 + n)..(11 + n) : w[k] \in Digits
           /\ w[12 + n] \in separators
           /\ w[13 + n] \in kinds
           /\ w[14 + n] \in Digits

\* the substrings of txt of that shape, as <<start, length>>
NumberSubstrings(txt, separators, kinds) ==
    {sl \in (1..Len(txt)) \X (15..17) :
        /\ sl[1] + sl[2] - 1 <= Len(txt)
        /\ NumberShape(SubSeq(txt, sl[1], sl[1] + sl[2] - 1), separators, kinds)}

\* the one that starts first
FirstNumber(txt, separators, kinds) ==
    LET subs == NumberSubstrings(txt, separators, kinds)
        sl == CHOOSE x \in subs : \A y \in subs : x[1] <= y[1]
    IN  SubSeq(txt, sl[1], sl[1] + sl[2] - 1)

Letters == UpperCase \cup LowerCase

\* C12 as stated: the number is the placeholder, or it is the first
\* substring of the text of the form "US", a space, 1-3 digits, ",", 3
\* digits, ",", 3 digits, a space, one letter and one digit.
C12_NumberHasExactForm ==
    Extractor \in DOMAIN info =>
        \/ info[Extractor].number = NumberNA
        \/ /\ NumberSubstrings(text, {" "}, Letters) # {}
           /\ info[Extractor].number = FirstNumber(text, {" "}, Letters)

\* C12 as amended: where the form has one whitespace character in the place
\* of each space and one word character (letter, digit or "_") in the place
\* of the letter, the number is the first substring of the text of that
\* form, as it stands in the text, and the placeholder exactly when the text
\* has no such substring.
C12_NumberIsFirstMatch ==
    Extractor \in DOMAIN info =>
        IF NumberSubstrings(text, Whitespace, WordChars) = {}
        THEN info[Extractor].number = NumberNA
        ELSE info[Extractor].number = FirstNumber(text, Whitespace, WordChars)

\* a text with two different numbers has been parsed and the one of the spec's
\* example, which comes first, is the number returned
C12_Witness ==
    /\ Extractor \in DOMAIN info
    /\ Cardinality(NumberSubstrings(text, Whitespace, WordChars)) = 2
    /\ info[Extractor].number =
           <<"U", "S", " ", "1", "0", ",", "1", "2", "3", ",", "4", "5", "6",
             " ", "B", "2">>
    /\ FirstNumber(text, Whitespace, WordChars)
           # SubSeq(text, Len(text) - 14, Len(text))

\* w is a month abbreviation, ".", a whitespace character, a day of one or
\* two digits, ",", a whitespace character and a year of four digits
DateShape(w) ==
    /\ Len(w) \in 12..13
    /\ LET n == Len(w) - 11
       IN  /\ SubSeq(w, 1, 3) \in Months
           /\ w[4] = "."
           /\ w[5] \in Whitespace
           /\ \A k \in 6..(5 + n) : w[k] \in Digits
           /\ w[6 + n] = ","
           /\ w[7 + n] \in Whitespace
           /\ \A k \in (8 + n)..(11 + n) : w[k] \in Digits

DateLabel == <<"D", "a", "t", "e", " ", "o", "f", " ",
               "P", "a", "t", "e", "n", "t", ":">>

AllSpace(txt, p, n) == \A k \in p..(p + n - 1) : txt[k] \in Whitespace

\* where a label ends: "(45)" starts at s, "Date of Patent:" follows it
\* after some whitespace characters or none and ends before e
LabelEnds(txt, s) ==
    IF ~OccursAt(txt, s, <<"(", "4", "5", ")">>) THEN {}
    ELSE {e \in (s + 19)..(Len(txt) + 1) :
             /\ OccursAt(txt, e - 15, DateLabel)
             /\ AllSpace(txt, s + 4, e - 19 - s)}

\* the dates of txt that the label starting at s introduces, as <<s, g, l>>:
\* after the label and some whitespace characters or none a date of length l
\* starts at g, after which the text ends or a character that is no letter,
\* digit or "_" comes
LabelledDatesAt(txt, s) ==
    {sgl \in {s} \X ((s + 19)..Len(txt)) \X (12..13) :
        LET g == sgl[2]
            l == sgl[3]
        IN  /\ g + l - 1 <= Len(txt)
            /\ DateShape(SubSeq(txt, g, g + l - 1))
            /\ g + l <= Len(txt) => txt[g + l] \notin WordChars
            /\ \E e \in LabelEnds(txt, s) : e <= g /\ AllSpace(txt, e, g - e)}

LabelledDates(txt) ==
    UNION {LabelledDatesAt(txt, s) :
              s \in {p \in 1..Len(txt) : OccursAt(txt, p, <<"(", "4", "5", ")">>)}}

\* the date after the first label that introduces one
FirstLabelledDate(txt) ==
    LET ds == LabelledDates(txt)
        d == CHOOSE x \in ds : \A y \in ds : x[1] <= y[1]
    IN  SubSeq(txt, d[2], d[2] + d[3] - 1)

-----------------------------------------------------------------------------
(* Properties of a run (Spec), continued *)

\* page k has been completely processed: its four artifacts are written and
\* its path and text are in the lists
Processed(k) ==
    /\ ArtifactsOf(k) \subseteq DOMAIN files
    /\ k <= Len(image_paths)
    /\ k <= Len(texts)

\* C14: once the progress bar of the page loop exists, its total is the
\* number N of pages; its count is the number of pages completely processed,
\* a page whose processing has just ended being counted when the loop takes
\* the next item (so the count starts at 0, rises by one per processed page
\* and never falls); and it is N when the run has returned.
C14_ProgressCountOfTotal ==
    progress_total # <<>> =>
        /\ progress_total[1] = [known |-> TRUE, value |-> Len(images)]
        /\ progress_n \in 0..Len(images)
        /\ \A k \in 1..progress_n : Processed(k)
        /\ \A k \in 1..Len(images) :
               Processed(k) => \/ k <= progress_n
                               \/ k = progress_n + 1 /\ pc \in {"next", "aborted"}
        /\ result # <<>> => progress_n = Len(images)

\* the pages that have an artifact on disk
PagesOnDisk == {n[2] : n \in DOMAIN files}

OnDisk(name) == name \in DOMAIN files

\* C15: in every state of a run after main has prepared the directory, also
\* of a run that a save, a recognition or the text write has aborted, the
\* files on disk are a prefix of the page-by-page, step-by-step order: files
\* appear only once rendering has finished, a page with a file on disk has
\* all four artifacts of every earlier page before it, and within a page the
\* text is there only with the second column, the second column only with
\* the first, and the first only with the full page.
C15_ArtifactsFormPrefix ==
    pc # "main" =>
        /\ DOMAIN files # {} => pc \notin {"select", "render", "loop", "exit"}
        /\ \A p \in PagesOnDisk :
               /\ p \in 1..Len(images)
               /\ \A j \in 1..(p - 1) : ArtifactsOf(j) \subseteq DOMAIN files
               /\ OnDisk(page_txt(p)) => OnDisk(column_png(p, 2))
               /\ OnDisk(column_png(p, 2)) => OnDisk(column_png(p, 1))
               /\ OnDisk(column_png(p, 1)) => OnDisk(page_png(p))

\* the run was aborted by the text write of the second page: page 1 is
\* complete on disk and page 2 has its three images
C15_Witness ==
    /\ pc = "aborted"
    /\ failure[1].kind = "persist"
    /\ failure[1].page = 2
    /\ ArtifactsOf(1) \subseteq DOMAIN files
    /\ OnDisk(column_png(2, 2))
    /\ ~OnDisk(page_txt(2))

-----------------------------------------------------------------------------
(* The variants of parse_patent_info (ParseSpec) *)

Variants == {"patent_text_extractor", "Patent-anim2", "CVRT3.0"}

\* C16: once the three variants of parse_patent_info have been applied to a
\* text, they have returned the same title, number, date, inventors and
\* abstract.
C16_VariantsAgree ==
    DOMAIN info = Variants =>
        \A v, w \in Variants :
            \A f \in {"title", "number", "date", "inventors", "abstract"} :
                info[v][f] = info[w][f]

=============================================================================
